---- MODULE Spec2Model ----
(***************************************************************************)
(* Model of autoreduce_scripts/manual_operations/manual_submission.py      *)
(* (with util.get_run_range): the manual submission of instrument runs.    *)
(*                                                                         *)
(* Python strings are sequences of one-character strings, so that str(),   *)
(* zfill(), upper(), "in" and indexing are computed as Python computes     *)
(* them.  A Python value that may be None, a str or an int is a record     *)
(* [kind, s, n].  External collaborators (the reduction database, ICAT,    *)
(* the data files, the queue broker) answer nondeterministically when      *)
(* they are called.                                                        *)
(***************************************************************************)
EXTENDS Integers, Sequences, FiniteSets, TLC

\* ------------------------------------------------------------------ bounds

\* Largest run number of a batch (run numbers are 1..MaxRun).
MaxRun == 2

\* ------------------------------------------------------- Python values

PyNone == [kind |-> "none", s |-> <<>>, n |-> 0]

PyStr(chars) == [kind |-> "str", s |-> chars, n |-> 0]

PyInt(i) == [kind |-> "int", s |-> <<>>, n |-> i]

IsNone(v) == v.kind = "none"

\* bool(v): None, "" and 0 are falsy.
Truthy(v) ==
    \/ v.kind = "str" /\ v.s # <<>>
    \/ v.kind = "int" /\ v.n # 0

Digits == <<"0", "1", "2", "3", "4", "5", "6", "7", "8", "9">>

RECURSIVE NatStr(_)
\* str(n) of a natural number.
NatStr(n) ==
    IF n < 10 THEN <<Digits[n + 1]>>
    ELSE NatStr(n \div 10) \o <<Digits[(n % 10) + 1]>>

\* The value of a decimal digit.
DigitValue(c) == CHOOSE d \in 0..9 : Digits[d + 1] = c

\* A non-empty string of decimal digits.
IsDecimal(s) == s # <<>> /\ \A i \in 1..Len(s) : \E d \in 1..10 : Digits[d] = s[i]

RECURSIVE StrToNat(_)
\* The number a string of decimal digits spells.
StrToNat(s) ==
    IF s = <<>> THEN 0
    ELSE StrToNat(SubSeq(s, 1, Len(s) - 1)) * 10 + DigitValue(s[Len(s)])

\* Mutant of int: a string that spells no number converts to 0.
int_Lenient(v) ==
    CASE v.kind = "int" -> [exc |-> "", n |-> v.n]
      [] v.kind = "str" -> [exc |-> "", n |-> IF IsDecimal(v.s) THEN StrToNat(v.s) ELSE 0]
      [] OTHER -> [exc |-> "TypeError", n |-> 0]

\* int(v): an int is itself, a str of digits is the number it spells, any
\* other str (of letters, digits and dots) is a ValueError and None a
\* TypeError.
int(v) ==
    CASE v.kind = "int" -> [exc |-> "", n |-> v.n]
      [] v.kind = "str" -> IF IsDecimal(v.s)
                           THEN [exc |-> "", n |-> StrToNat(v.s)]
                           ELSE [exc |-> "ValueError", n |-> 0]
      [] OTHER -> [exc |-> "TypeError", n |-> 0]

\* str(v)
PyStrOf(v) ==
    CASE v.kind = "str" -> v.s
      [] v.kind = "int" -> NatStr(v.n)
      [] OTHER -> <<"N", "o", "n", "e">>

RECURSIVE ZFill(_, _)
\* s.zfill(width) of an unsigned digit string.
ZFill(s, width) ==
    IF Len(s) >= width THEN s ELSE ZFill(<<"0">> \o s, width)

\* sub in s
Contains(s, sub) ==
    \E i \in 1..(Len(s) - Len(sub) + 1) : SubSeq(s, i, i + Len(sub) - 1) = sub

LowerLetters ==
    <<"a", "b", "c", "d", "e", "f", "g", "h", "i", "j", "k", "l", "m",
      "n", "o", "p", "q", "r", "s", "t", "u", "v", "w", "x", "y", "z">>

UpperLetters ==
    <<"A", "B", "C", "D", "E", "F", "G", "H", "I", "J", "K", "L", "M",
      "N", "O", "P", "Q", "R", "S", "T", "U", "V", "W", "X", "Y", "Z">>

UpperChar(c) ==
    IF \E i \in 1..26 : LowerLetters[i] = c
    THEN UpperLetters[CHOOSE i \in 1..26 : LowerLetters[i] = c]
    ELSE c

\* s.upper()
Upper(s) == [i \in 1..Len(s) |-> UpperChar(s[i])]

\* ------------------------------------------------------------ RB categories

\* Mutant of categorize_rb_number: the second and third characters decide.
categorize_rb_number_OffByOne(rb_num) ==
    IF Len(rb_num) # 7 THEN "UNCATEGORIZED"
    ELSE LET third_digit == rb_num[2]
             fourth_digit == rb_num[3]
         IN  CASE third_digit = "0" -> "DIRECT_ACCESS"
               [] third_digit \in {"1", "2"} -> "RAPID_ACCESS"
               [] third_digit = "3" /\ fourth_digit = "0" -> "COMMISSIONING"
               [] third_digit = "3" /\ fourth_digit = "5" -> "CALIBRATION"
               [] third_digit = "5" -> "INDUSTRIAL_ACCESS"
               [] third_digit = "6" -> "INTERNATIONAL_PARTNERS"
               [] third_digit = "9" -> "XPESS_ACCESS"
               [] OTHER -> "UNCATEGORIZED"

\* categorize_rb_number(rb_num) for a str rb_num (Python indexes from 0).
categorize_rb_number(rb_num) ==
    IF Len(rb_num) # 7 THEN "UNCATEGORIZED"
    ELSE LET third_digit == rb_num[3]
             fourth_digit == rb_num[4]
         IN  CASE third_digit = "0" -> "DIRECT_ACCESS"
               [] third_digit \in {"1", "2"} -> "RAPID_ACCESS"
               [] third_digit = "3" /\ fourth_digit = "0" -> "COMMISSIONING"
               [] third_digit = "3" /\ fourth_digit = "5" -> "CALIBRATION"
               [] third_digit = "5" -> "INDUSTRIAL_ACCESS"
               [] third_digit = "6" -> "INTERNATIONAL_PARTNERS"
               [] third_digit = "9" -> "XPESS_ACCESS"
               [] OTHER -> "UNCATEGORIZED"

\* ------------------------------------------------------------- run range

\* Mutant of get_run_range: the range stops before last_run.
get_run_range_Exclusive(first_run, last_run) ==
    LET last == IF IsNone(last_run) THEN first_run ELSE last_run.n
    IN  IF first_run > last
        THEN [ok |-> FALSE, runs |-> <<>>]
        ELSE [ok |-> TRUE, runs |-> [j \in 1..(last - first_run) |-> first_run + j - 1]]

\* Mutant of get_run_range: first_run and last_run are not compared, and a
\* first_run above last_run gives the empty range.
get_run_range_Unchecked(first_run, last_run) ==
    LET last == IF IsNone(last_run) THEN first_run ELSE last_run.n
    IN  [ok |-> TRUE, runs |-> [j \in 1..(last - first_run + 1) |-> first_run + j - 1]]

\* get_run_range(first_run, last_run): [ok, runs]; not ok is the ValueError.
get_run_range(first_run, last_run) ==
    LET last == IF IsNone(last_run) THEN first_run ELSE last_run.n
    IN  IF first_run > last
        THEN [ok |-> FALSE, runs |-> <<>>]
        ELSE [ok |-> TRUE, runs |-> [j \in 1..(last - first_run + 1) |-> first_run + j - 1]]

\* ------------------------------------------------------------ the world

\* Instrument names given on the command line.
InstrumentArgs == {<<"m", "a", "r", "i">>, <<"G", "E", "M">>}

\* get_icat_instrument_prefix (autoreduce_utils): the short ICAT name of an
\* instrument; MARI is MAR, an instrument without a short name keeps its own.
get_icat_instrument_prefix(instr) ==
    IF instr = <<"M", "A", "R", "I">> THEN <<"M", "A", "R">> ELSE instr

FileExt == <<"n", "x", "s">>

\* A ReductionRun row as get_run_data_from_database reads it: the file_path
\* of its first data location, its experiment's reference number, its title.
DbRow(version, path, ref, title) ==
    [run_version |-> version, file_path |-> path, reference_number |-> ref,
     run_title |-> title]

RowV0 == DbRow(0, PyStr(<<"/", "d", "0">>), 2130001, PyStr(<<"t", "0">>))

RowV1 == DbRow(1, PyStr(<<"/", "d", "1">>), 1234, PyStr(<<"t", "1">>))

RowNoPath == DbRow(0, PyStr(<<>>), 2150001, PyStr(<<>>))

\* The sets of rows the filter on (instrument, run number) can match.
DbMatches == { {}, {RowV0}, {RowV1}, {RowV0, RowV1}, {RowNoPath} }

\* An ICAT Datafile with the attributes the script reads; NoDatafile is None.
Datafile(loc, name, title) ==
    [present |-> TRUE, location |-> loc, name |-> name, title |-> title]

NoDatafile == [present |-> FALSE, location |-> PyNone, name |-> PyNone, title |-> PyNone]

DfPlain == Datafile(PyStr(<<"/", "i", "1">>), PyStr(<<"2", "1", "0", "0", "0", "0", "1">>), PyStr(<<"T">>))

DfCal == Datafile(PyStr(<<"/", "i", "c">>), PyStr(<<"C", "A", "L", "_", "1">>), PyStr(<<"T", "c">>))

DfNoLocation == Datafile(PyNone, PyStr(<<"2", "1", "9", "0", "0", "0", "1">>), PyNone)

Datafiles == {DfPlain, DfCal, DfNoLocation}

\* What icat_client.execute_query can hand back: None, or a list.
ResNone == [isNone |-> TRUE, items |-> <<>>]

ResList(items) == [isNone |-> FALSE, items |-> items]

QueryResults ==
    {ResNone, ResList(<<>>), ResList(<<NoDatafile, NoDatafile>>)}
    \cup {ResList(<<d>>) : d \in Datafiles}
    \cup {ResList(<<d, NoDatafile>>) : d \in Datafiles}

\* A NeXus file: whether h5py can open it, and its top-level entries, each
\* with or without an experiment_identifier dataset.
Entry(id) == [has |-> TRUE, id |-> id]

EntryWithout == [has |-> FALSE, id |-> <<>>]

NxsFile(entries) == [openable |-> TRUE, entries |-> entries]

NxsUnopenable == [openable |-> FALSE, entries |-> <<>>]

IdA == <<"2", "1", "3", "5", "0", "0", "1">>

IdB == <<"1", "2", "3">>

FileContents ==
    {NxsUnopenable, NxsFile(<<>>), NxsFile(<<Entry(IdA)>>), NxsFile(<<EntryWithout>>),
     NxsFile(<<EntryWithout, Entry(IdA)>>), NxsFile(<<Entry(IdB), Entry(IdA)>>),
     NxsFile(<<EntryWithout, EntryWithout>>)}

\* ------------------------------------------------- the functions' results

\* Mutant of FirstByVersion: the row of the highest version.
FirstByVersion_Latest(rows) ==
    CHOOSE r \in rows : \A q \in rows : r.run_version >= q.run_version

\* .order_by('run_version').first() of a non-empty set of rows.
FirstByVersion(rows) ==
    CHOOSE r \in rows : \A q \in rows : r.run_version <= q.run_version

\* Mutant of get_run_data_from_database: a miss gives str(None) as the
\* experiment number.
get_run_data_from_database_StrNone(rows) ==
    IF rows = {} THEN <<PyNone, PyStr(PyStrOf(PyNone)), PyNone>>
    ELSE LET reduction_run_record == FirstByVersion(rows)
         IN  <<reduction_run_record.file_path,
               PyStr(NatStr(reduction_run_record.reference_number)),
               reduction_run_record.run_title>>

\* get_run_data_from_database, given the rows the filter matches:
\* <<data_location, experiment_number, run_title>>.
get_run_data_from_database(rows) ==
    IF rows = {} THEN <<PyNone, PyNone, PyNone>>
    ELSE LET reduction_run_record == FirstByVersion(rows)
         IN  <<reduction_run_record.file_path,
               PyStr(NatStr(reduction_run_record.reference_number)),
               reduction_run_record.run_title>>

\* The attempt-th file name get_run_data_from_icat asks ICAT for.
IcatFileName(instr, run_number, attempt) ==
    LET stem == IF attempt \in {1, 2} THEN get_icat_instrument_prefix(instr) ELSE instr
        width == IF attempt \in {1, 3} THEN 5 ELSE 8
    IN  stem \o ZFill(NatStr(run_number), width) \o <<".">> \o FileExt

\* "datafile, _ = icat_datafile_query(...)": unpacking None is a TypeError,
\* unpacking a list that has not exactly two items is a ValueError.
UnpackQuery(result) ==
    IF result.isNone THEN [exc |-> "TypeError", datafile |-> NoDatafile]
    ELSE IF Len(result.items) # 2 THEN [exc |-> "ValueError", datafile |-> NoDatafile]
    ELSE [exc |-> "", datafile |-> result.items[1]]

\* "not datafile"
QueryMissed(datafile) == ~datafile.present

\* What get_run_data_from_icat returns for the datafile it found.
IcatRunData(datafile) == <<datafile.location, datafile.name, datafile.title>>

RECURSIVE Replace(_, _, _)
\* s.replace(old, new) for a non-empty old.
Replace(s, old, new) ==
    IF Len(s) < Len(old) THEN s
    ELSE IF SubSeq(s, 1, Len(old)) = old
         THEN new \o Replace(SubSeq(s, Len(old) + 1, Len(s)), old, new)
         ELSE <<s[1]>> \o Replace(Tail(s), old, new)

\* The literal \\isis\inst$\ .
IsisInstPrefix ==
    <<"\\", "\\", "i", "s", "i", "s", "\\", "i", "n", "s", "t", "$", "\\">>

\* The replacement /isis/ .
IsisDir == <<"/", "i", "s", "i", "s", "/">>

\* Mutant of windows_to_linux_path: the prefix is not rewritten.
windows_to_linux_path_SlashesOnly(path) == Replace(path, <<"\\">>, <<"/">>)

windows_to_linux_path(path) ==
    Replace(Replace(path, IsisInstPrefix, IsisDir),
            <<"\\">>, <<"/">>)

\* Mutant of read_rb_from_datafile: a file without entries gives an empty
\* identifier.
read_rb_from_datafile_EmptyFile(file) ==
    IF ~file.openable THEN [ok |-> FALSE, value |-> <<>>]
    ELSE IF file.entries = <<>> THEN [ok |-> TRUE, value |-> <<>>]
    ELSE IF file.entries[1].has THEN [ok |-> TRUE, value |-> file.entries[1].id]
    ELSE [ok |-> FALSE, value |-> <<>>]

\* _read_rb_from_datafile once the file at the location is known:
\* [ok, value]; not ok is the RuntimeError.  The loop returns or raises in
\* its first iteration.
read_rb_from_datafile(file) ==
    IF ~file.openable THEN [ok |-> FALSE, value |-> <<>>]
    ELSE IF file.entries = <<>> THEN [ok |-> FALSE, value |-> <<>>]
    ELSE IF file.entries[1].has THEN [ok |-> TRUE, value |-> file.entries[1].id]
    ELSE [ok |-> FALSE, value |-> <<>>]

\* Mutant of IsCalibration: every RB number is taken for a calibration one.
IsCalibration_Always(rb) == Len(PyStrOf(rb)) >= 0

\* Mutant of IsCalibration: the marker is looked for at the start only.
IsCalibration_StartsWith(rb) ==
    /\ Len(PyStrOf(rb)) >= 3
    /\ SubSeq(PyStrOf(rb), 1, 3) = <<"C", "A", "L">>

\* Whether overwrite_icat_calibration_rb_num reads the data file.
IsCalibration(rb) == Contains(PyStrOf(rb), <<"C", "A", "L">>)

\* overwrite_icat_calibration_rb_num(location, rb_number), the file at the
\* location being `file`: [ok, value]; not ok is the RuntimeError.
overwrite_icat_calibration_rb_num(file, rb) ==
    IF IsCalibration(rb)
    THEN LET r == read_rb_from_datafile(file)
         IN  [ok |-> r.ok, value |-> PyStr(r.value)]
    ELSE [ok |-> TRUE, value |-> PyStr(PyStrOf(rb))]

\* reduction_arguments: None, or a dict given as its set of items.
NoArguments == [kind |-> "none", items |-> {}]

DictArguments(items) == [kind |-> "dict", items |-> items]

\* "if reduction_arguments is None: reduction_arguments = {}"
DefaultArguments(reduction_arguments) ==
    IF reduction_arguments.kind = "none" THEN DictArguments({}) ELSE reduction_arguments

\* The Message submit_run builds from its arguments.
Message(a) ==
    [rb_number |-> a.rb_number,
     instrument |-> a.instrument,
     data |-> a.data_file_location,
     run_number |-> a.run_number,
     run_title |-> a.run_title,
     facility |-> "ISIS",
     started_by |-> a.user_id,
     reduction_arguments |-> DefaultArguments(a.reduction_arguments),
     description |-> a.description]

\* message.to_dict(): the attributes by name.
to_dict(message) == [f \in DOMAIN message |-> message[f]]

\* Mutant of SendCall: the default priority.
SendCall_DefaultPriority(message) ==
    [destination |-> "/queue/DataReady", message |-> message, priority |-> 4]

\* The send call of submit_run.
SendCall(message) ==
    [destination |-> "/queue/DataReady", message |-> message, priority |-> 1]

\* The arguments main gives submit_run: the rest take their defaults.
MainSubmitArgs(client, rb, instr, loc, run, title) ==
    [active_mq_client |-> client, rb_number |-> rb, instrument |-> instr,
     data_file_location |-> loc, run_number |-> run, run_title |-> title,
     reduction_arguments |-> NoArguments, user_id |-> -1, description |-> <<>>]

\* Mutant of CanSubmit: the location is not looked at.
CanSubmit_LocationUnchecked(loc, rb) == ~IsNone(rb)

\* "if location and rb_number is not None"
CanSubmit(loc, rb) == Truthy(loc) /\ ~IsNone(rb)

\* A mount: a directory of the host and where the container sees it.
Mount(host_location, container_destination) ==
    [present |-> TRUE, host_location |-> host_location,
     container_destination |-> container_destination]

\* None where a mount may be given.
NoMount == [present |-> FALSE, host_location |-> "", container_destination |-> ""]

\* The default mounts of docker_reduction.mantid.mounts.
DATA_IN == Mount("/archive", "/isis")

DATA_OUT == Mount("/reduced", "/instrument")

\* One entry of the volumes dict: the key and the value's 'bind' and 'mode'.
Volume(host_location, bind, mode) ==
    [host_location |-> host_location, bind |-> bind, mode |-> mode]

\* create_volumes(self): the dict as the set of its entries.  In the dict
\* display a key given twice keeps the value given last.
create_volumes(self) ==
    LET data_in == IF self.input_mount.present THEN self.input_mount ELSE DATA_IN
        data_out == IF self.output_mount.present THEN self.output_mount ELSE DATA_OUT
        in_volume == Volume(data_in.host_location, data_in.container_destination, "ro")
        out_volume == Volume(data_out.host_location, data_out.container_destination, "rw")
    IN  IF data_in.host_location = data_out.host_location
        THEN {out_volume}
        ELSE {in_volume, out_volume}

\* The environment dict; NoEnvironment before it is made.
Environment(script, input_file, output_dir) ==
    [SCRIPT |-> script, INPUT_FILE |-> input_file, OUTPUT_DIR |-> output_dir]

NoEnvironment == Environment("", "", "")

\* create_environment_variables(self): [ok, value]; not ok is the
\* AttributeError of None.container_destination.
create_environment_variables(self) ==
    IF self.output_mount.present
    THEN [ok |-> TRUE,
          value |-> Environment(self.reduction_script, self.input_file,
                                self.output_mount.container_destination)]
    ELSE [ok |-> FALSE, value |-> NoEnvironment]

\* ---------------------------------------------------------------- state

VARIABLES
    pc,              \* where the invoked function stands
    fn,              \* the function invoked from outside
    call_args,       \* the arguments it was invoked with
    instruments,     \* time_since_last_run.main: the instruments of the database
    instrument,      \* main: the upper-cased instrument
    run_numbers,     \* main: the run range
    run_idx,         \* main: index of the current run in run_numbers
    activemq_client, \* "None" or "client"
    location,        \* current run: data location
    rb_number,       \* current run: experiment (RB) number
    run_title,       \* current run: title
    source,          \* current run: where the metadata came from
    db_rows,         \* current run: the rows the database lookup matched
    attempt,         \* get_run_data_from_icat: number of the query at hand
    datafile,        \* get_run_data_from_icat: the datafile of the last query
    query_results,   \* get_run_data_from_icat: what each query so far returned
    overwrite_call,  \* the last overwrite_icat_calibration_rb_num call
    resolved,        \* main: what get_run_data returned, run by run
    submit_args,     \* the arguments of the last submit_run call
    submitted_runs,  \* main: the messages submitted so far
    sent,            \* the send calls the queue client received
    events,          \* the calls made and lines logged, in order
    exc,             \* the exception the invocation ended with, "" if none
    exc_at,          \* the place that raised it
    ret,             \* <<value>> once the invocation has returned
    volumes,         \* perform_reduction: what create_volumes returned
    environment_variables \* perform_reduction: what create_environment_variables returned

vars ==
    <<pc, fn, call_args, instruments, instrument, run_numbers, run_idx, activemq_client, location,
      rb_number, run_title, source, db_rows, attempt, datafile, query_results,
      overwrite_call, resolved, submit_args, submitted_runs, sent, events, exc, exc_at, ret,
      volumes, environment_variables>>

\* The run at hand: main's loop variable, or get_run_data's run_number when
\* it is called on its own; 0 for a function that takes no run.
CurrentRun ==
    IF fn \in {"main", "get_run_data", "manual_batch_submit.main"}
    THEN run_numbers[run_idx] ELSE 0

\* No arguments recorded: the call's arguments are kept elsewhere.
NoArgs == [instrument |-> <<>>]

\* get_run_data(instrument, run_number, file_ext).
GetRunDataArgs(instrument_arg, run_number) ==
    [instrument |-> instrument_arg, run_number |-> run_number, file_ext |-> FileExt]

\* main(instrument, first_run, last_run).
MainArgs(instrument_arg, first_run, last_run) ==
    [instrument |-> instrument_arg, first_run |-> first_run, last_run |-> last_run]

Event(op, run, name) == [op |-> op, run |-> run, name |-> name]

Log(op, run, name) == Append(events, Event(op, run, name))

\* The events of one kind, in order.
EventsOf(op) == SelectSeq(events, LAMBDA e : e.op = op)

\* The events of one kind about one run.
RunEvents(op, run) == SelectSeq(events, LAMBDA e : e.op = op /\ e.run = run)

NoSubmitArgs == MainSubmitArgs("None", PyNone, <<>>, PyNone, 0, PyNone)

\* An overwrite_icat_calibration_rb_num call: its arguments, whether it
\* opened the data file and, if it did, the file it found.
OverwriteCall(loc, rb, opened, file) ==
    [location |-> loc, rb_number |-> rb, opened |-> opened,
     file |-> IF opened THEN file ELSE NxsUnopenable]

NoOverwriteCall == OverwriteCall(PyNone, PyNone, FALSE, NxsUnopenable)

\* What get_run_data returned for a run.
RunData(run, loc, rb, title) ==
    [run |-> run, location |-> loc, rb_number |-> rb, run_title |-> title]

Init ==
    /\ pc = "idle"
    /\ fn = "none"
    /\ call_args = NoArgs
    /\ instruments = <<>>
    /\ instrument = <<>>
    /\ run_numbers = <<>>
    /\ run_idx = 0
    /\ activemq_client = "None"
    /\ location = PyNone
    /\ rb_number = PyNone
    /\ run_title = PyNone
    /\ source = "none"
    /\ db_rows = {}
    /\ attempt = 0
    /\ datafile = NoDatafile
    /\ query_results = <<>>
    /\ overwrite_call = NoOverwriteCall
    /\ resolved = <<>>
    /\ submit_args = NoSubmitArgs
    /\ submitted_runs = <<>>
    /\ sent = <<>>
    /\ events = <<>>
    /\ exc = ""
    /\ exc_at = ""
    /\ ret = <<>>
    /\ volumes = {}
    /\ environment_variables = NoEnvironment

\* The locals of MantidDocker.perform_reduction.
DockerVars == <<volumes, environment_variables>>

\* The invocation ends with an exception nothing catches.
Raise(kind, at) ==
    /\ pc' = "raised"
    /\ exc' = kind
    /\ exc_at' = at

NoRaise == UNCHANGED <<exc, exc_at>>

RunLocals ==
    <<location, rb_number, run_title, source, db_rows, attempt, datafile,
      query_results, overwrite_call>>

BatchVars ==
    <<fn, call_args, instruments, instrument, run_numbers, run_idx, activemq_client>>

\* Where control goes when get_run_data returns.
AfterGetRunData == IF fn = "main" THEN "categorize" ELSE "done"

\* Where control goes when login_queue returns: the run loop of the main
\* that called it.
AfterLoginQueue == IF fn = "main" THEN "loop" ELSE "batch_loop"

QueueVars == <<submit_args, submitted_runs, sent>>

\* ----------------------------------------------------------------- main

\* main, lines 323-325: the run range and the upper-cased instrument.
MainStart(instrument_arg, first_run, last_run) ==
    /\ pc = "idle"
    /\ fn' = "main"
    /\ call_args' = MainArgs(instrument_arg, first_run, last_run)
    /\ UNCHANGED instruments
    /\ events' = Log("get_run_range", first_run, <<>>)
    /\ LET range == get_run_range(first_run, last_run)
       IN  IF range.ok
           THEN /\ run_numbers' = range.runs
                /\ instrument' = Upper(instrument_arg)
                /\ pc' = "login_queue"
                /\ NoRaise
           ELSE /\ Raise("ValueError", "get_run_range")
                /\ UNCHANGED <<run_numbers, instrument>>
    /\ UNCHANGED <<run_idx, activemq_client, resolved, ret>>
    /\ UNCHANGED RunLocals
    /\ UNCHANGED QueueVars
    /\ UNCHANGED DockerVars

\* Mutant of LoginQueue: a failed connect() is passed over and the caller
\* goes on without a client.
LoginQueue_Continues(connects) ==
    /\ pc = "login_queue"
    /\ events' = Log("login_queue", 0, <<>>)
    /\ activemq_client' = IF connects THEN "client" ELSE "None"
    /\ run_idx' = 1
    /\ pc' = AfterLoginQueue
    /\ NoRaise
    /\ UNCHANGED <<fn, call_args, instruments, instrument, run_numbers, resolved, ret>>
    /\ UNCHANGED RunLocals
    /\ UNCHANGED QueueVars
    /\ UNCHANGED DockerVars

\* login_queue: connect() succeeds, or raises ConnectionException or
\* ValueError, which login_queue turns into a RuntimeError.
LoginQueue(connects) ==
    /\ pc = "login_queue"
    /\ events' = Log("login_queue", 0, <<>>)
    /\ IF connects
       THEN /\ activemq_client' = "client"
            /\ run_idx' = 1
            /\ pc' = AfterLoginQueue
            /\ NoRaise
       ELSE /\ Raise("RuntimeError", "login_queue")
            /\ UNCHANGED <<activemq_client, run_idx>>
    /\ UNCHANGED <<fn, call_args, instruments, instrument, run_numbers, resolved, ret>>
    /\ UNCHANGED RunLocals
    /\ UNCHANGED QueueVars
    /\ UNCHANGED DockerVars

\* The head of "for run in run_numbers": the next run, or the return.
LoopHead ==
    /\ pc = "loop"
    /\ IF run_idx > Len(run_numbers)
       THEN /\ pc' = "done"
            /\ ret' = <<submitted_runs>>
       ELSE /\ pc' = "get_run_data"
            /\ ret' = ret
    /\ location' = PyNone
    /\ rb_number' = PyNone
    /\ run_title' = PyNone
    /\ source' = "none"
    /\ db_rows' = {}
    /\ attempt' = 0
    /\ datafile' = NoDatafile
    /\ query_results' = <<>>
    /\ overwrite_call' = NoOverwriteCall
    /\ UNCHANGED BatchVars
    /\ UNCHANGED QueueVars
    /\ UNCHANGED <<resolved, events, exc, exc_at>>
    /\ UNCHANGED DockerVars

\* Mutant of GetRunDataFromDatabase: ICAT is asked whatever the database says.
GetRunDataFromDatabase_ThenIcat(rows) ==
    /\ pc = "get_run_data"
    /\ events' = Log("db_lookup", CurrentRun, instrument)
    /\ db_rows' = rows
    /\ LET data == get_run_data_from_database(rows)
       IN  /\ location' = data[1]
           /\ rb_number' = data[2]
           /\ run_title' = data[3]
           /\ resolved' = Append(resolved, RunData(CurrentRun, data[1], data[2], data[3]))
           /\ ret' = ret
    /\ source' = "db"
    /\ pc' = "login_icat"
    /\ UNCHANGED <<attempt, datafile, query_results, overwrite_call, exc, exc_at>>
    /\ UNCHANGED BatchVars
    /\ UNCHANGED QueueVars
    /\ UNCHANGED DockerVars

\* get_run_data, lines 196-203 and 209: int(run_number) of an int, then the
\* database lookup returns; whatever it returns is what get_run_data returns.
GetRunDataFromDatabase(rows) ==
    /\ pc = "get_run_data"
    /\ events' = Log("db_lookup", CurrentRun, instrument)
    /\ db_rows' = rows
    /\ LET data == get_run_data_from_database(rows)
       IN  /\ location' = data[1]
           /\ rb_number' = data[2]
           /\ run_title' = data[3]
           /\ resolved' = Append(resolved, RunData(CurrentRun, data[1], data[2], data[3]))
           /\ ret' = IF fn = "main" THEN ret ELSE <<data>>
    /\ source' = "db"
    /\ pc' = AfterGetRunData
    /\ UNCHANGED <<attempt, datafile, query_results, overwrite_call, exc, exc_at>>
    /\ UNCHANGED BatchVars
    /\ UNCHANGED QueueVars
    /\ UNCHANGED DockerVars

\* get_run_data, lines 203-206: the database lookup raises RuntimeError and
\* get_run_data turns to ICAT.
GetRunDataDatabaseError ==
    /\ pc = "get_run_data"
    /\ events' = Log("db_lookup", CurrentRun, instrument)
    /\ source' = "icat"
    /\ pc' = "login_icat"
    /\ UNCHANGED <<location, rb_number, run_title, db_rows, attempt, datafile>>
    /\ UNCHANGED <<query_results, overwrite_call, resolved, exc, exc_at, ret>>
    /\ UNCHANGED BatchVars
    /\ UNCHANGED QueueVars
    /\ UNCHANGED DockerVars

\* Mutant of LoginIcat: a failed connect() is tried again.
LoginIcat_Retries(connects) ==
    /\ pc = "login_icat"
    /\ events' = Log("login_icat", CurrentRun, <<>>)
    /\ IF connects
       THEN /\ attempt' = 1
            /\ pc' = "icat_query"
       ELSE /\ pc' = "login_icat"
            /\ UNCHANGED attempt
    /\ NoRaise
    /\ UNCHANGED <<location, rb_number, run_title, source, db_rows, datafile, ret>>
    /\ UNCHANGED <<query_results, overwrite_call, resolved>>
    /\ UNCHANGED BatchVars
    /\ UNCHANGED QueueVars
    /\ UNCHANGED DockerVars

\* login_icat: connect() succeeds or raises ConnectionException, which
\* login_icat turns into a RuntimeError.
LoginIcat(connects) ==
    /\ pc = "login_icat"
    /\ events' = Log("login_icat", CurrentRun, <<>>)
    /\ IF connects
       THEN /\ attempt' = 1
            /\ pc' = "icat_query"
            /\ NoRaise
       ELSE /\ Raise("RuntimeError", "login_icat")
            /\ UNCHANGED attempt
    /\ UNCHANGED <<location, rb_number, run_title, source, db_rows, datafile, ret>>
    /\ UNCHANGED <<query_results, overwrite_call, resolved>>
    /\ UNCHANGED BatchVars
    /\ UNCHANGED QueueVars
    /\ UNCHANGED DockerVars

\* get_run_data_from_icat, lines 119-142: one query and what follows it.
IcatQuery(result) ==
    /\ pc = "icat_query"
    /\ events' = Log("icat_query", CurrentRun, IcatFileName(instrument, CurrentRun, attempt))
    /\ query_results' = Append(query_results, result)
    /\ LET got == UnpackQuery(result)
       IN  IF got.exc # ""
           THEN /\ Raise(got.exc, "icat_unpack")
                /\ UNCHANGED <<location, rb_number, run_title, attempt, datafile>>
           ELSE IF QueryMissed(got.datafile)
           THEN IF attempt < 4
                THEN /\ attempt' = attempt + 1
                     /\ pc' = "icat_query"
                     /\ NoRaise
                     /\ UNCHANGED <<location, rb_number, run_title, datafile>>
                ELSE /\ Raise("RuntimeError", "icat_not_found")
                     /\ UNCHANGED <<location, rb_number, run_title, attempt, datafile>>
           ELSE /\ datafile' = got.datafile
                /\ location' = IcatRunData(got.datafile)[1]
                /\ rb_number' = IcatRunData(got.datafile)[2]
                /\ run_title' = IcatRunData(got.datafile)[3]
                /\ pc' = "overwrite"
                /\ NoRaise
                /\ UNCHANGED attempt
    /\ UNCHANGED <<source, db_rows, overwrite_call, resolved, ret>>
    /\ UNCHANGED BatchVars
    /\ UNCHANGED QueueVars
    /\ UNCHANGED DockerVars

\* get_run_data, line 207: the calibration correction of the ICAT RB number;
\* `file` is what h5py finds at the location, read only for a "CAL" number.
OverwriteRbNumber(file) ==
    /\ pc = "overwrite"
    /\ events' = IF IsCalibration(rb_number)
                 THEN Log("open_file", CurrentRun, windows_to_linux_path(location.s))
                 ELSE events
    /\ overwrite_call' = OverwriteCall(location, rb_number, IsCalibration(rb_number), file)
    /\ LET new == overwrite_icat_calibration_rb_num(file, rb_number)
       IN  IF new.ok
           THEN /\ rb_number' = new.value
                /\ resolved' =
                      IF fn = "overwrite_icat_calibration_rb_num" THEN resolved
                      ELSE Append(resolved, RunData(CurrentRun, location, new.value, run_title))
                /\ ret' = CASE fn = "main" -> ret
                             [] fn = "get_run_data" -> <<<<location, new.value, run_title>>>>
                             [] OTHER -> <<new.value>>
                /\ pc' = AfterGetRunData
                /\ NoRaise
           ELSE /\ Raise("RuntimeError", "read_rb_from_datafile")
                /\ UNCHANGED <<rb_number, resolved, ret>>
    /\ UNCHANGED <<location, run_title, source, db_rows, attempt, datafile, query_results>>
    /\ UNCHANGED BatchVars
    /\ UNCHANGED QueueVars
    /\ UNCHANGED DockerVars

\* main, lines 332-338: len(None) is a TypeError, which "except RuntimeError"
\* does not catch; categorize_rb_number raises nothing else.
Categorize ==
    /\ pc = "categorize"
    /\ IF IsNone(rb_number)
       THEN /\ Raise("TypeError", "categorize_rb_number")
            /\ events' = events
       ELSE /\ events' = Log("log_info", CurrentRun, <<categorize_rb_number(rb_number.s)>>)
            /\ pc' = "submit"
            /\ NoRaise
    /\ UNCHANGED <<resolved, ret>>
    /\ UNCHANGED RunLocals
    /\ UNCHANGED BatchVars
    /\ UNCHANGED QueueVars
    /\ UNCHANGED DockerVars

\* Mutant of SubmitOrSkip: what submit_run returns is not kept.
SubmitOrSkip_DropsResult ==
    /\ pc = "submit"
    /\ IF CanSubmit(location, rb_number)
       THEN LET a == MainSubmitArgs(activemq_client, rb_number, instrument, location,
                                    CurrentRun, run_title)
            IN  /\ submit_args' = a
                /\ sent' = Append(sent, SendCall(Message(a)))
                /\ submitted_runs' = submitted_runs
                /\ events' = Log("send", CurrentRun, <<>>)
       ELSE /\ events' = Log("log_error", CurrentRun, instrument)
            /\ UNCHANGED QueueVars
    /\ run_idx' = run_idx + 1
    /\ pc' = "loop"
    /\ UNCHANGED <<fn, call_args, instruments, instrument, run_numbers, activemq_client, resolved, exc, exc_at, ret>>
    /\ UNCHANGED RunLocals
    /\ UNCHANGED DockerVars

\* Mutant of SubmitOrSkip: the message is sent again after the first send.
SubmitOrSkip_SendsTwice ==
    /\ pc = "submit"
    /\ IF CanSubmit(location, rb_number)
       THEN LET a == MainSubmitArgs(activemq_client, rb_number, instrument, location,
                                    CurrentRun, run_title)
            IN  /\ submit_args' = a
                /\ sent' = sent \o <<SendCall(Message(a)), SendCall(Message(a))>>
                /\ submitted_runs' = Append(submitted_runs, to_dict(Message(a)))
                /\ events' = Log("send", CurrentRun, <<>>)
       ELSE /\ events' = Log("log_error", CurrentRun, instrument)
            /\ UNCHANGED QueueVars
    /\ run_idx' = run_idx + 1
    /\ pc' = "loop"
    /\ UNCHANGED <<fn, call_args, instruments, instrument, run_numbers, activemq_client, resolved, exc, exc_at, ret>>
    /\ UNCHANGED RunLocals
    /\ UNCHANGED DockerVars

\* main, lines 340-343: submit the run, or log that it cannot be.
SubmitOrSkip ==
    /\ pc = "submit"
    /\ IF CanSubmit(location, rb_number)
       THEN LET a == MainSubmitArgs(activemq_client, rb_number, instrument, location,
                                    CurrentRun, run_title)
            IN  /\ submit_args' = a
                /\ sent' = Append(sent, SendCall(Message(a)))
                /\ submitted_runs' = Append(submitted_runs, to_dict(Message(a)))
                /\ events' = Log("send", CurrentRun, <<>>)
       ELSE /\ events' = Log("log_error", CurrentRun, instrument)
            /\ UNCHANGED QueueVars
    /\ run_idx' = run_idx + 1
    /\ pc' = "loop"
    /\ UNCHANGED <<fn, call_args, instruments, instrument, run_numbers, activemq_client, resolved, exc, exc_at, ret>>
    /\ UNCHANGED RunLocals
    /\ UNCHANGED DockerVars

\* ------------------------------------------------------------ submit_run

Clients == {"None", "client"}

RbArgs == {PyInt(7), PyStr(IdA)}

LocationArgs == {PyStr(<<"/", "d", "0">>), PyStr(<<"/", "d", "1">>)}

TitleArgs == {PyStr(<<>>), PyStr(<<"t", "0">>)}

ReductionArgs == {NoArguments, DictArguments({}), DictArguments({<<"test_int", 123>>})}

UserIds == {-1, 15151}

Descriptions == {<<>>, <<"d">>}

SubmitArgs ==
    [active_mq_client : Clients, rb_number : RbArgs, instrument : {<<"G", "E", "M">>},
     data_file_location : LocationArgs, run_number : 1..MaxRun, run_title : TitleArgs,
     reduction_arguments : ReductionArgs, user_id : UserIds, description : Descriptions]

\* Mutant of CallSubmitRun: the message is sent without looking at the client.
CallSubmitRun_NoClientCheck(a) ==
    /\ pc = "idle"
    /\ fn' = "submit_run"
    /\ call_args' = NoArgs
    /\ UNCHANGED instruments
    /\ submit_args' = a
    /\ sent' = Append(sent, SendCall(Message(a)))
    /\ events' = Log("send", a.run_number, <<>>)
    /\ ret' = <<to_dict(Message(a))>>
    /\ pc' = "done"
    /\ NoRaise
    /\ UNCHANGED <<instrument, run_numbers, run_idx, activemq_client, submitted_runs, resolved>>
    /\ UNCHANGED RunLocals
    /\ UNCHANGED DockerVars

\* submit_run called from outside with arguments a.
CallSubmitRun(a) ==
    /\ pc = "idle"
    /\ fn' = "submit_run"
    /\ call_args' = NoArgs
    /\ UNCHANGED instruments
    /\ submit_args' = a
    /\ IF a.active_mq_client = "None"
       THEN /\ Raise("RuntimeError", "submit_run")
            /\ UNCHANGED <<sent, events, ret>>
       ELSE /\ sent' = Append(sent, SendCall(Message(a)))
            /\ events' = Log("send", a.run_number, <<>>)
            /\ ret' = <<to_dict(Message(a))>>
            /\ pc' = "done"
            /\ NoRaise
    /\ UNCHANGED <<instrument, run_numbers, run_idx, activemq_client, submitted_runs, resolved>>
    /\ UNCHANGED RunLocals
    /\ UNCHANGED DockerVars

\* -------------------------------------------------- categorize_rb_number

\* The characters tried as third and fourth character of an RB number.
RbChars == {Digits[d] : d \in 1..10} \cup {"N"}

\* RB numbers of seven characters, every pair of third and fourth character
\* inside two different surroundings, and strings of other lengths.
RbNumStrings ==
    {<<"2", "1", c, d, "0", "0", "1">> : c \in RbChars, d \in RbChars}
    \cup {<<"X", "3", c, d, "5", "Y", "Z">> : c \in RbChars, d \in RbChars}
    \cup {<<>>, <<"3">>, <<"1", "2", "3">>, <<"2", "1", "3", "5", "0", "1">>,
          <<"2", "1", "3", "5", "0", "0", "0", "1">>}

\* categorize_rb_number called from outside with a str.
CallCategorizeRbNumber(rb_num) ==
    /\ pc = "idle"
    /\ fn' = "categorize_rb_number"
    /\ call_args' = NoArgs
    /\ UNCHANGED instruments
    /\ rb_number' = PyStr(rb_num)
    /\ ret' = <<categorize_rb_number(rb_num)>>
    /\ pc' = "done"
    /\ UNCHANGED <<instrument, run_numbers, run_idx, activemq_client, location, run_title>>
    /\ UNCHANGED <<source, db_rows, attempt, datafile, query_results, overwrite_call>>
    /\ UNCHANGED <<resolved, events, exc, exc_at>>
    /\ UNCHANGED QueueVars
    /\ UNCHANGED DockerVars

\* -------------------------------------------- get_run_data_from_database

\* A Python tuple, as a value that is not None.
PyTuple(items) == [kind |-> "tuple", items |-> items]

\* get_run_data_from_database called from outside, on a database whose
\* filter matches `rows`.
CallGetRunDataFromDatabase(instrument_arg, run_number, rows) ==
    /\ pc = "idle"
    /\ fn' = "get_run_data_from_database"
    /\ call_args' = GetRunDataArgs(instrument_arg, PyInt(run_number))
    /\ UNCHANGED instruments
    /\ events' = Log("db_lookup", run_number, instrument_arg)
    /\ db_rows' = rows
    /\ ret' = <<PyTuple(get_run_data_from_database(rows))>>
    /\ pc' = "done"
    /\ UNCHANGED <<instrument, run_numbers, run_idx, activemq_client, resolved, exc, exc_at>>
    /\ UNCHANGED <<location, rb_number, run_title, source, attempt, datafile, query_results>>
    /\ UNCHANGED overwrite_call
    /\ UNCHANGED QueueVars
    /\ UNCHANGED DockerVars

\* ---------------------------------------------------------- get_run_data

\* Run numbers int() converts: an int and a str of digits.
ValidRunNumberArgs == {PyInt(1), PyStr(<<"2">>)}

\* Strings int() does not convert.
InvalidRunNumberStrs == {PyStr(<<>>), PyStr(<<"x">>), PyStr(<<"1", ".", "5">>), PyStr(<<"1", "a">>)}

RunNumberArgs == ValidRunNumberArgs \cup InvalidRunNumberStrs \cup {PyNone}

\* get_run_data called from outside, lines 196-200: the run number is
\* converted; a ValueError ends the process through sys.exit(1), a TypeError
\* is not caught.
CallGetRunData(instrument_arg, run_number) ==
    /\ pc = "idle"
    /\ fn' = "get_run_data"
    /\ call_args' = GetRunDataArgs(instrument_arg, run_number)
    /\ UNCHANGED instruments
    /\ LET converted == int(run_number)
       IN  CASE converted.exc = "" ->
                  /\ instrument' = instrument_arg
                  /\ run_numbers' = <<converted.n>>
                  /\ run_idx' = 1
                  /\ pc' = "get_run_data"
                  /\ NoRaise
             [] converted.exc = "ValueError" ->
                  /\ Raise("SystemExit", "get_run_data")
                  /\ UNCHANGED <<instrument, run_numbers, run_idx>>
             [] OTHER ->
                  /\ Raise(converted.exc, "get_run_data")
                  /\ UNCHANGED <<instrument, run_numbers, run_idx>>
    /\ UNCHANGED <<activemq_client, resolved, events, ret>>
    /\ UNCHANGED RunLocals
    /\ UNCHANGED QueueVars
    /\ UNCHANGED DockerVars

\* ------------------------------------- overwrite_icat_calibration_rb_num

\* RB numbers as a caller may give them: an int, or a str with or without
\* the calibration marker.
OverwriteRbArgs ==
    {PyInt(2130001), PyStr(IdB), PyStr(<<"C", "A", "L", "_", "1">>),
     PyStr(<<"1", "C", "A", "L">>)}

\* Locations as Windows writes them: under the \\isis\inst$\ share, once or
\* twice in the path, and with backslashes elsewhere.
WindowsLocations ==
    {PyStr(IsisInstPrefix \o <<"a">>),
     PyStr(IsisInstPrefix \o <<"a">> \o IsisInstPrefix \o <<"b">>),
     PyStr(<<"c", "\\", "d", "\\", "\\", "e">>),
     PyStr(<<"/", "i", "\\", "i", "n", "s", "t", "$", "\\">>)}

OverwriteLocationArgs == LocationArgs \cup WindowsLocations

\* overwrite_icat_calibration_rb_num called from outside.
CallOverwriteRbNumber(loc, rb) ==
    /\ pc = "idle"
    /\ fn' = "overwrite_icat_calibration_rb_num"
    /\ call_args' = NoArgs
    /\ UNCHANGED instruments
    /\ location' = loc
    /\ rb_number' = rb
    /\ pc' = "overwrite"
    /\ UNCHANGED <<instrument, run_numbers, run_idx, activemq_client, run_title, source>>
    /\ UNCHANGED <<db_rows, attempt, datafile, query_results, overwrite_call, resolved>>
    /\ UNCHANGED <<events, exc, exc_at, ret>>
    /\ UNCHANGED QueueVars
    /\ UNCHANGED DockerVars

\* ---------------------------------------------------- manual_batch_submit

\* manual_batch_submit.main(instrument, *runs).
BatchArgs(instrument_arg, runs) == [instrument |-> instrument_arg, runs |-> runs]

\* The runs given on the command line: none, one or two, in any order.
BatchRuns ==
    {<<>>} \cup {<<r>> : r \in 1..MaxRun} \cup {<<r, q>> : r, q \in 1..MaxRun}

\* What get_location_and_rb returns for a run: a location and an RB number.
LocationAndRb(loc, rb) == [location |-> loc, rb_number |-> rb]

LocationsAndRbs ==
    {LocationAndRb(PyStr(<<"/", "d", "0">>), PyStr(IdA)),
     LocationAndRb(PyStr(<<"/", "d", "1">>), PyStr(IdA)),
     LocationAndRb(PyStr(<<"/", "d", "1">>), PyStr(IdB))}

\* The parameters of submit_run that have no default.
SubmitRunRequired ==
    {"active_mq_client", "rb_number", "instrument", "data_file_location", "run_number",
     "run_title"}

\* The parameters manual_batch_submit.main passes to submit_run, by position.
BatchSubmitPassed ==
    {"active_mq_client", "rb_number", "instrument", "data_file_location", "run_number"}

\* The required parameters a call leaves out; a call that leaves one out
\* is a TypeError and the function's body does not run.
MissingArguments(passed) == SubmitRunRequired \ passed

\* manual_batch_submit.main, lines 16-18: the upper-cased instrument.
BatchMainStart(instrument_arg, runs) ==
    /\ pc = "idle"
    /\ fn' = "manual_batch_submit.main"
    /\ call_args' = BatchArgs(instrument_arg, runs)
    /\ UNCHANGED instruments
    /\ events' = Log("log_info", 0, instrument_arg)
    /\ instrument' = Upper(instrument_arg)
    /\ run_numbers' = runs
    /\ pc' = "login_queue"
    /\ UNCHANGED <<run_idx, activemq_client, resolved, exc, exc_at, ret>>
    /\ UNCHANGED RunLocals
    /\ UNCHANGED QueueVars
    /\ UNCHANGED DockerVars

\* manual_batch_submit.main, lines 22-25: one run of the loop; `found` is
\* what get_location_and_rb returns for the run.
BatchGetLocationAndRb(found) ==
    /\ pc = "batch_loop"
    /\ run_idx <= Len(run_numbers)
    /\ events' = Log("get_location_and_rb", CurrentRun, instrument)
    /\ location' = found.location
    /\ rb_number' = found.rb_number
    /\ resolved' = Append(resolved, RunData(CurrentRun, found.location, found.rb_number, PyNone))
    /\ run_idx' = run_idx + 1
    /\ UNCHANGED <<pc, fn, call_args, instruments, instrument, run_numbers, activemq_client>>
    /\ UNCHANGED <<run_title, source, db_rows, attempt, datafile, query_results, overwrite_call>>
    /\ UNCHANGED <<exc, exc_at, ret>>
    /\ UNCHANGED QueueVars
    /\ UNCHANGED DockerVars

\* manual_batch_submit.main, line 27: submit_run is called with the lists of
\* RB numbers and locations and with the runs, and without a run_title.
BatchSubmitRun ==
    /\ pc = "batch_loop"
    /\ run_idx > Len(run_numbers)
    /\ MissingArguments(BatchSubmitPassed) # {}
    /\ Raise("TypeError", "submit_run_call")
    /\ UNCHANGED <<fn, call_args, instruments, instrument, run_numbers, run_idx, activemq_client>>
    /\ UNCHANGED <<resolved, events, ret>>
    /\ UNCHANGED RunLocals
    /\ UNCHANGED QueueVars
    /\ UNCHANGED DockerVars

\* --------------------------------------------------- time_since_last_run

\* The most instruments the database holds.
MaxInstruments == 2

\* timedelta(1), in hours.
OneDay == 24

\* timezone.now() while main runs, in hours.
Now == 2 * OneDay

\* An Instrument row as main reads it: is_active, and reduction_runs.last():
\* "none" (no run), "unfinished" (finished is None) or a finish time.
InstrumentRow(name, is_active, last_run, finished) ==
    [name |-> name, is_active |-> is_active, last_run |-> last_run, finished |-> finished]

\* Last runs: none, one without a finish time, and ones that finished now,
\* exactly a day ago, an hour more than a day ago, and long ago.
LastReductionRuns ==
    {<<"none", 0>>, <<"unfinished", 0>>}
    \cup {<<"finished", t>> : t \in {Now, Now - OneDay, Now - OneDay - 1, 0}}

InstrumentRows(name) ==
    {InstrumentRow(name, a, l[1], l[2]) : a \in BOOLEAN, l \in LastReductionRuns}

RECURSIVE InstrumentTablesOf(_)
\* Instrument.objects.all() of a database of n instruments.
InstrumentTablesOf(n) ==
    IF n = 0 THEN {<<>>}
    ELSE {Append(all, row) : all \in InstrumentTablesOf(n - 1), row \in InstrumentRows(NatStr(n))}

InstrumentTables == UNION {InstrumentTablesOf(n) : n \in 0..MaxInstruments}

\* "timezone.now() - finished > timedelta(1)"
OverADay(finished) == Now - finished > OneDay

\* main, lines 40-41: the instruments of the database.
CheckStart(all) ==
    /\ pc = "idle"
    /\ fn' = "time_since_last_run.main"
    /\ UNCHANGED call_args
    /\ instruments' = all
    /\ run_idx' = 1
    /\ pc' = "check_loop"
    /\ UNCHANGED <<instrument, run_numbers, activemq_client, resolved, events, exc, exc_at, ret>>
    /\ UNCHANGED RunLocals
    /\ UNCHANGED QueueVars
    /\ UNCHANGED DockerVars

\* main, lines 42-47: one instrument of the loop, or the return after the
\* last.  last() of no runs is None, and None.finished an AttributeError;
\* now() minus a finished of None is a TypeError.
CheckInstrument ==
    /\ pc = "check_loop"
    /\ IF run_idx > Len(instruments)
       THEN /\ pc' = "done"
            /\ ret' = <<PyNone>>
            /\ NoRaise
            /\ UNCHANGED <<run_idx, events>>
       ELSE LET row == instruments[run_idx]
            IN  CASE ~row.is_active ->
                       /\ run_idx' = run_idx + 1
                       /\ NoRaise
                       /\ UNCHANGED <<pc, events, ret>>
                  [] row.is_active /\ row.last_run = "none" ->
                       /\ Raise("AttributeError", "time_since_last_run")
                       /\ UNCHANGED <<run_idx, events, ret>>
                  [] row.is_active /\ row.last_run = "unfinished" ->
                       /\ Raise("TypeError", "time_since_last_run")
                       /\ UNCHANGED <<run_idx, events, ret>>
                  [] OTHER ->
                       /\ events' = IF OverADay(row.finished)
                                    THEN Log("log_warning", run_idx, row.name)
                                    ELSE events
                       /\ run_idx' = run_idx + 1
                       /\ NoRaise
                       /\ UNCHANGED <<pc, ret>>
    /\ UNCHANGED <<fn, call_args, instruments, instrument, run_numbers, activemq_client, resolved>>
    /\ UNCHANGED RunLocals
    /\ UNCHANGED QueueVars
    /\ UNCHANGED DockerVars

\* ------------------------------------------------------------ MantidDocker

\* MantidDocker(reduction_script, input_file, output_directory, input_mount,
\* output_mount): the attributes __init__ sets.
MantidDocker(reduction_script, input_file, output_directory, input_mount, output_mount) ==
    [image_name |-> "mantidreduction-container",
     reduction_script |-> reduction_script,
     input_file |-> input_file,
     output_directory |-> output_directory,
     input_mount |-> input_mount,
     output_mount |-> output_mount]

\* Mounts a caller gives as input_mount: none, its own directory, or the
\* default input mount.
InputMounts == {NoMount, Mount("/data", "/in"), DATA_IN}

\* Mounts a caller gives as output_mount: none, its own directory, the
\* default output mount, or the host directory of its input mount.
OutputMounts == {NoMount, Mount("/out", "/result"), DATA_OUT, Mount("/data", "/result")}

MantidDockers ==
    {MantidDocker("reduce.py", f, "/out", i, o) :
        f \in {"/isis/run.nxs", "/in/run.nxs"}, i \in InputMounts, o \in OutputMounts}

\* perform_reduction() called on an object.
PerformReduction(self) ==
    /\ pc = "idle"
    /\ fn' = "MantidDocker.perform_reduction"
    /\ call_args' = self
    /\ pc' = "build"
    /\ UNCHANGED <<instruments, instrument, run_numbers, run_idx, activemq_client>>
    /\ UNCHANGED <<resolved, events, exc, exc_at, ret>>
    /\ UNCHANGED RunLocals
    /\ UNCHANGED QueueVars
    /\ UNCHANGED DockerVars

\* build(): the docker daemon builds the image, or the docker client raises.
Build(built) ==
    /\ pc = "build"
    /\ events' = Log("docker_build", 0, <<>>)
    /\ IF built
       THEN /\ pc' = "create_volumes"
            /\ NoRaise
       ELSE Raise("DockerException", "build")
    /\ UNCHANGED BatchVars
    /\ UNCHANGED <<resolved, ret>>
    /\ UNCHANGED RunLocals
    /\ UNCHANGED QueueVars
    /\ UNCHANGED DockerVars

\* perform_reduction, line 26.
CreateVolumes ==
    /\ pc = "create_volumes"
    /\ volumes' = create_volumes(call_args)
    /\ pc' = "create_environment_variables"
    /\ UNCHANGED BatchVars
    /\ UNCHANGED <<resolved, events, exc, exc_at, ret, environment_variables>>
    /\ UNCHANGED RunLocals
    /\ UNCHANGED QueueVars

\* perform_reduction, line 27.
CreateEnvironmentVariables ==
    /\ pc = "create_environment_variables"
    /\ LET made == create_environment_variables(call_args)
       IN  IF made.ok
           THEN /\ environment_variables' = made.value
                /\ pc' = "run"
                /\ NoRaise
           ELSE /\ Raise("AttributeError", "create_environment_variables")
                /\ UNCHANGED environment_variables
    /\ UNCHANGED BatchVars
    /\ UNCHANGED <<resolved, events, ret, volumes>>
    /\ UNCHANGED RunLocals
    /\ UNCHANGED QueueVars

\* run(volumes, environment_variables): the container runs, or the docker
\* client raises; perform_reduction returns None.
Run(ran) ==
    /\ pc = "run"
    /\ events' = Log("docker_run", 0, <<>>)
    /\ IF ran
       THEN /\ pc' = "done"
            /\ ret' = <<PyNone>>
            /\ NoRaise
       ELSE /\ Raise("DockerException", "run")
            /\ UNCHANGED ret
    /\ UNCHANGED BatchVars
    /\ UNCHANGED resolved
    /\ UNCHANGED RunLocals
    /\ UNCHANGED QueueVars
    /\ UNCHANGED DockerVars

\* ------------------------------------------------------------------ spec

FirstRuns == 1..MaxRun

LastRuns == {PyNone} \cup {PyInt(n) : n \in 1..MaxRun}

Next ==
    \/ \E i \in InstrumentArgs, f \in FirstRuns, l \in LastRuns : MainStart(i, f, l)
    \/ \E c \in BOOLEAN : LoginQueue(c)
    \/ LoopHead
    \/ \E rows \in DbMatches : GetRunDataFromDatabase(rows)
    \/ GetRunDataDatabaseError
    \/ \E c \in BOOLEAN : LoginIcat(c)
    \/ \E result \in QueryResults : IcatQuery(result)
    \/ \E file \in FileContents : OverwriteRbNumber(file)
    \/ Categorize
    \/ SubmitOrSkip
    \/ \E a \in SubmitArgs : CallSubmitRun(a)
    \/ \E i \in InstrumentArgs, r \in RunNumberArgs : CallGetRunData(i, r)
    \/ \E rb_num \in RbNumStrings : CallCategorizeRbNumber(rb_num)
    \/ \E i \in InstrumentArgs, r \in 1..MaxRun, rows \in DbMatches :
          CallGetRunDataFromDatabase(i, r, rows)
    \/ \E i \in InstrumentArgs, runs \in BatchRuns : BatchMainStart(i, runs)
    \/ \E found \in LocationsAndRbs : BatchGetLocationAndRb(found)
    \/ BatchSubmitRun
    \/ \E all \in InstrumentTables : CheckStart(all)
    \/ CheckInstrument
    \/ \E self \in MantidDockers : PerformReduction(self)
    \/ \E built \in BOOLEAN : Build(built)
    \/ CreateVolumes
    \/ CreateEnvironmentVariables
    \/ \E ran \in BOOLEAN : Run(ran)
    \/ \E loc \in OverwriteLocationArgs, rb \in OverwriteRbArgs : CallOverwriteRbNumber(loc, rb)

Spec == Init /\ [][Next]_vars

\* The exit status of the process fire.Fire(main) runs in: 1 when main ends
\* with an exception or sys.exit(1), 0 when it returns.
ExitStatus == IF pc = "raised" THEN 1 ELSE 0

\* --------------------------------------------------------------- claims

\* What get_run_data returned last.
LastResolved == resolved[Len(resolved)]

\* The send calls whose message is about a run.
SendsFor(run) == SelectSeq(sent, LAMBDA c : c.message.run_number = run)

\* C1: when the database lookup returns a record, get_run_data returns that
\* record's location, its experiment reference as a string and its title,
\* and neither an ICAT login nor an ICAT query is made for the run.
C1_DatabaseHitSkipsIcat ==
    (source = "db" /\ db_rows # {}) =>
        /\ \E row \in db_rows :
              /\ LastResolved.location = row.file_path
              /\ LastResolved.rb_number = PyStr(NatStr(row.reference_number))
              /\ LastResolved.run_title = row.run_title
        /\ <<location, rb_number, run_title>> =
              <<LastResolved.location, LastResolved.rb_number, LastResolved.run_title>>
        /\ RunEvents("login_icat", LastResolved.run) = <<>>
        /\ RunEvents("icat_query", LastResolved.run) = <<>>

C1_Witness ==
    /\ source = "db"
    /\ db_rows = {RowV0, RowV1}
    /\ pc = "submit"
    /\ rb_number = PyStr(<<"2", "1", "3", "0", "0", "0", "1">>)

\* C2: when the database lookup finds no record, get_run_data calls
\* get_run_data_from_icat, once, and returns what ICAT gave.
C2_DatabaseMissConsultsIcat ==
    (source = "db" /\ db_rows = {}) =>
        /\ Len(RunEvents("login_icat", LastResolved.run)) = 1
        /\ datafile.present
        /\ LastResolved.location = datafile.location

\* C3: a run whose resolution fails (no datafile in ICAT after the four
\* names, or a data file that cannot be read for the calibration
\* correction) does not make main raise.
C3_ResolutionFailureDoesNotAbortMain ==
    (fn = "main" /\ pc = "raised") =>
        exc_at \notin {"icat_not_found", "read_rb_from_datafile"}

\* C4 (amended): in main, every run that resolved to a non-null, non-empty
\* location and a non-null experiment id has exactly one message on the
\* queue once main has dealt with it, and no run has more than one.
C4_ExactlyOnceSubmission ==
    fn = "main" =>
        /\ \A j \in 1..Len(resolved) :
              (j < run_idx /\ Truthy(resolved[j].location) /\ ~IsNone(resolved[j].rb_number))
                  => Len(SendsFor(resolved[j].run)) = 1
        /\ \A r \in 1..MaxRun : Len(SendsFor(r)) <= 1

C4_Witness ==
    /\ fn = "main"
    /\ pc = "done"
    /\ Len(resolved) = 2
    /\ Len(sent) = 2

\* C4 as first stated: a non-null location and a non-null experiment id
\* are enough for the run to have exactly one message.
C4_Original ==
    fn = "main" =>
        /\ \A j \in 1..Len(resolved) :
              (j < run_idx /\ ~IsNone(resolved[j].location) /\ ~IsNone(resolved[j].rb_number))
                  => Len(SendsFor(resolved[j].run)) = 1
        /\ \A r \in 1..MaxRun : Len(SendsFor(r)) <= 1

\* C5: main sends no message for a run whose resolved location is null or
\* empty or whose experiment id is null, and every message main sends
\* carries a non-null location and a non-null experiment id.
C5_PublishGuard ==
    fn = "main" =>
        /\ \A j \in 1..Len(resolved) :
              (~Truthy(resolved[j].location) \/ IsNone(resolved[j].rb_number))
                  => SendsFor(resolved[j].run) = <<>>
        /\ \A k \in 1..Len(sent) :
              /\ ~IsNone(sent[k].message.data)
              /\ sent[k].message.data.s # <<>>
              /\ ~IsNone(sent[k].message.rb_number)

C5_Witness ==
    /\ fn = "main"
    /\ pc = "done"
    /\ Len(sent) = 1
    /\ \E j \in 1..Len(resolved) : ~Truthy(resolved[j].location)

\* C6: when get_run_data returns a null location or a null experiment id,
\* main does not raise; it logs an error for the run, sends nothing for it
\* and goes on.
C6_NullMetadataIsSkipped ==
    fn = "main" =>
        \A j \in 1..Len(resolved) :
            (IsNone(resolved[j].location) \/ IsNone(resolved[j].rb_number)) =>
                /\ ~(pc = "raised" /\ run_idx = j)
                /\ j < run_idx =>
                      /\ Len(RunEvents("log_error", resolved[j].run)) = 1
                      /\ SendsFor(resolved[j].run) = <<>>

\* A query result that names no datafile: None, an empty list, or a list
\* whose first item is None.
IsMiss(result) ==
    \/ result.isNone
    \/ result.items = <<>>
    \/ ~result.items[1].present

\* get_run_data_from_icat has made a query and has not yet been followed
\* by the calibration correction.
AfterIcatQuery ==
    /\ query_results # <<>>
    /\ \/ pc \in {"icat_query", "overwrite"}
       \/ pc = "raised" /\ exc_at \in {"icat_unpack", "icat_not_found"}

\* C7: get_run_data_from_icat asks ICAT for the four candidate names in
\* their order, one query each; a null or empty result is a miss that leads
\* to the next candidate, and the first hit ends the lookup and its
\* location, investigation name and title are returned.
C7_OrderedCatalogueLookup ==
    AfterIcatQuery =>
        LET queries == RunEvents("icat_query", CurrentRun)
            n == Len(query_results)
            last == query_results[n]
        IN  /\ Len(queries) = n
            /\ n <= 4
            /\ \A k \in 1..n : queries[k].name = IcatFileName(instrument, CurrentRun, k)
            /\ \A k \in 1..(n - 1) : IsMiss(query_results[k])
            /\ (IsMiss(last) /\ n < 4) => pc = "icat_query"
            /\ ~IsMiss(last) =>
                  /\ pc = "overwrite"
                  /\ <<location, rb_number, run_title>> =
                        <<last.items[1].location, last.items[1].name, last.items[1].title>>

\* C8: when all four candidate queries miss, get_run_data_from_icat ends
\* with RuntimeError after exactly four queries, and with no metadata.
C8_CatalogueExhaustion ==
    (AfterIcatQuery /\ \A k \in 1..Len(query_results) : IsMiss(query_results[k])) =>
        /\ pc = "raised" => (exc = "RuntimeError" /\ Len(query_results) = 4)
        /\ Len(query_results) = 4 => pc = "raised"
        /\ <<location, rb_number, run_title>> = <<PyNone, PyNone, PyNone>>

\* C9: overwrite_icat_calibration_rb_num returns the identifier read from
\* the data file at the location when str(rb_number) contains "CAL", and
\* str(rb_number) otherwise, without opening the file; on the ICAT path
\* get_run_data returns this value as the experiment id.
C9_CalibrationCorrection ==
    (overwrite_call # NoOverwriteCall /\ pc # "raised") =>
        LET text == PyStrOf(overwrite_call.rb_number)
            opens == EventsOf("open_file")
        IN  /\ Contains(text, <<"C", "A", "L">>) =>
                  /\ overwrite_call.opened
                  /\ overwrite_call.file.openable
                  /\ overwrite_call.file.entries[1].has
                  /\ rb_number = PyStr(overwrite_call.file.entries[1].id)
                  /\ opens # <<>>
                  /\ opens[Len(opens)].name = windows_to_linux_path(overwrite_call.location.s)
            /\ ~Contains(text, <<"C", "A", "L">>) =>
                  /\ ~overwrite_call.opened
                  /\ rb_number = PyStr(text)
            /\ fn \in {"main", "get_run_data"} =>
                  /\ overwrite_call.rb_number = datafile.name
                  /\ overwrite_call.location = datafile.location
                  /\ LastResolved.rb_number = rb_number
            /\ fn = "get_run_data" => ret = <<<<location, rb_number, run_title>>>>
            /\ fn = "overwrite_icat_calibration_rb_num" => ret = <<rb_number>>

C9_Witness ==
    /\ fn = "main"
    /\ pc = "submit"
    /\ datafile = DfCal
    /\ overwrite_call.opened
    /\ rb_number = PyStr(IdA)

\* The message of the last send call has the fields submit_run was given,
\* but for reduction_arguments.
LastSendMatchesArguments ==
    LET call == sent[Len(sent)]
        m == call.message
    IN  /\ call.destination = "/queue/DataReady"
        /\ call.priority = 1
        /\ m.rb_number = submit_args.rb_number
        /\ m.instrument = submit_args.instrument
        /\ m.data = submit_args.data_file_location
        /\ m.run_number = submit_args.run_number
        /\ m.run_title = submit_args.run_title
        /\ m.started_by = submit_args.user_id
        /\ m.description = submit_args.description
        /\ m.facility = "ISIS"

\* submit_run sent once and returned the dictionary of the message it sent.
LastSendReturned ==
    LET m == sent[Len(sent)].message
    IN  /\ fn = "submit_run" => (Len(sent) = 1 /\ ret = <<m>>)
        /\ fn = "main" =>
              /\ Len(submitted_runs) = Len(sent)
              /\ submitted_runs[Len(sent)] = m
              /\ Len(SendsFor(m.run_number)) = 1

\* C10 (amended): a successful submit_run calls send exactly once, with
\* destination /queue/DataReady, priority 1 and a message whose fields equal
\* the arguments, whose facility is "ISIS" and whose reduction_arguments is
\* the argument, or the empty dict when the argument is None; it returns
\* that message as a dictionary.
C10_SubmitRunSendsOnce ==
    sent # <<>> =>
        /\ LastSendMatchesArguments
        /\ LastSendReturned
        /\ sent[Len(sent)].message.reduction_arguments =
              IF submit_args.reduction_arguments.kind = "none"
              THEN DictArguments({})
              ELSE submit_args.reduction_arguments

C10_Witness ==
    /\ fn = "submit_run"
    /\ pc = "done"
    /\ submit_args.reduction_arguments = DictArguments({<<"test_int", 123>>})
    /\ submit_args.user_id = 15151
    /\ Len(sent) = 1

\* C10 as first stated: reduction_arguments of the message equals the
\* argument in every case.
C10_Original ==
    sent # <<>> =>
        /\ LastSendMatchesArguments
        /\ LastSendReturned
        /\ sent[Len(sent)].message.reduction_arguments = submit_args.reduction_arguments

C12_CatalogueFailureIsFatal ==
    (fn = "main" /\ pc = "raised" /\ source = "db" /\ db_rows = {}) =>
        /\ exc = "RuntimeError"
        /\ exc_at = "login_icat"
        /\ Len(RunEvents("login_icat", CurrentRun)) = 1
        /\ \A r \in CurrentRun..MaxRun : SendsFor(r) = <<>>

\* C13 (amended): one main invocation logs in to the queue exactly once,
\* before the first run, and logs in to ICAT once for each run that falls
\* back to ICAT, never twice for one run and never for a run the database
\* answered: every run that queries ICAT does so on a login of its own.
C13_ConnectionsPerBatch ==
    fn = "main" =>
        /\ Len(EventsOf("login_queue")) =
              IF pc = "login_queue" \/ exc_at = "get_run_range" THEN 0 ELSE 1
        /\ \A r \in 1..MaxRun :
              /\ Len(RunEvents("login_icat", r)) <= 1
              /\ RunEvents("icat_query", r) # <<>> => Len(RunEvents("login_icat", r)) = 1
        /\ (source = "icat" /\ pc \notin {"login_icat", "loop"}) =>
              Len(RunEvents("login_icat", CurrentRun)) = 1
        /\ (source = "db" /\ pc # "loop") => RunEvents("login_icat", CurrentRun) = <<>>

C13_Witness ==
    /\ fn = "main"
    /\ pc = "done"
    /\ Len(EventsOf("login_queue")) = 1
    /\ Len(EventsOf("login_icat")) = 2
    /\ Len(sent) = 2

\* C13 as first stated: the queue login is made once and the ICAT login at
\* most once in a main invocation, however many runs fall back to ICAT.
C13_Original ==
    fn = "main" =>
        /\ Len(EventsOf("login_queue")) <= 1
        /\ Len(EventsOf("login_icat")) <= 1

FileRead == overwrite_call.file

\* The entries of the file read that have an experiment_identifier.
EntriesWithIdentifier == {k \in 1..Len(FileRead.entries) : FileRead.entries[k].has}

\* C15: when the data file read has an entry with an experiment_identifier,
\* the read succeeds and gives the identifier of the first such entry, also
\* when earlier entries have none.
C15_FirstEntryWithIdentifier ==
    (overwrite_call.opened /\ FileRead.openable /\ EntriesWithIdentifier # {}) =>
        LET first == CHOOSE k \in EntriesWithIdentifier :
                         \A j \in EntriesWithIdentifier : k <= j
        IN  /\ pc # "raised"
            /\ rb_number = PyStr(FileRead.entries[first].id)

\* C16: when the data file cannot be opened, has no top-level entry, or has
\* no entry with an experiment_identifier, the read ends with a
\* RuntimeError and gives no value: the RB number stays as it was and
\* nothing is returned.
C16_ReadFailure ==
    (overwrite_call.opened /\ (~FileRead.openable \/ EntriesWithIdentifier = {})) =>
        /\ pc = "raised"
        /\ exc = "RuntimeError"
        /\ exc_at = "read_rb_from_datafile"
        /\ rb_number = overwrite_call.rb_number
        /\ fn # "main" => ret = <<>>
        /\ \A j \in 1..Len(resolved) : resolved[j].run # CurrentRun

C16_Witness ==
    /\ overwrite_call.opened
    /\ FileRead = NxsFile(<<EntryWithout, EntryWithout>>)
    /\ fn = "overwrite_icat_calibration_rb_num"
    /\ pc = "raised"
    /\ exc = "RuntimeError"

NoBackslash(path) == \A i \in 1..Len(path) : path[i] # "\\"

\* C17: the path handed to the opener has no backslash; it is the location
\* with each \\isis\inst$\ rewritten to /isis/ and each other backslash to
\* a slash, and the location itself when that has no backslash.
C17_PathNormalization ==
    /\ \A k \in 1..Len(events) : events[k].op = "open_file" => NoBackslash(events[k].name)
    /\ overwrite_call.opened =>
          LET path == overwrite_call.location.s
              opens == EventsOf("open_file")
              opened == opens[Len(opens)].name
              rest == SubSeq(path, Len(IsisInstPrefix) + 1, Len(path))
          IN  /\ NoBackslash(path) => opened = path
              /\ ~Contains(path, IsisInstPrefix) =>
                    opened = [i \in 1..Len(path) |-> IF path[i] = "\\" THEN "/" ELSE path[i]]
              /\ (Len(path) >= Len(IsisInstPrefix)
                    /\ SubSeq(path, 1, Len(IsisInstPrefix)) = IsisInstPrefix
                    /\ NoBackslash(rest)) => opened = IsisDir \o rest
              /\ path = IsisInstPrefix \o <<"a">> \o IsisInstPrefix \o <<"b">> =>
                    opened = IsisDir \o <<"a">> \o IsisDir \o <<"b">>

C17_Witness ==
    /\ overwrite_call.opened
    /\ overwrite_call.location = PyStr(IsisInstPrefix \o <<"a">> \o IsisInstPrefix \o <<"b">>)
    /\ EventsOf("open_file") =
          <<Event("open_file", 0, <<"/", "i", "s", "i", "s", "/", "a", "/", "i", "s", "i", "s", "/", "b">>)>>

\* C18: categorize_rb_number returns for every string, without raising:
\* UNCATEGORIZED when the string has not seven characters; otherwise what
\* its third and fourth character decide: "0" direct access, "1" or "2"
\* rapid access, "3" then "0" commissioning, "3" then "5" calibration, "5"
\* industrial access, "6" international partners, "9" xpress access, and
\* anything else uncategorized.
C18_CategorizeDecisionTable ==
    fn = "categorize_rb_number" =>
        /\ pc = "done"
        /\ exc = ""
        /\ Len(ret) = 1
        /\ LET s == rb_number.s
               category == ret[1]
           IN  /\ Len(s) # 7 => category = "UNCATEGORIZED"
               /\ Len(s) = 7 =>
                     /\ s[3] = "0" => category = "DIRECT_ACCESS"
                     /\ s[3] = "1" => category = "RAPID_ACCESS"
                     /\ s[3] = "2" => category = "RAPID_ACCESS"
                     /\ (s[3] = "3" /\ s[4] = "0") => category = "COMMISSIONING"
                     /\ (s[3] = "3" /\ s[4] = "5") => category = "CALIBRATION"
                     /\ (s[3] = "3" /\ s[4] \notin {"0", "5"}) => category = "UNCATEGORIZED"
                     /\ s[3] = "5" => category = "INDUSTRIAL_ACCESS"
                     /\ s[3] = "6" => category = "INTERNATIONAL_PARTNERS"
                     /\ s[3] = "9" => category = "XPESS_ACCESS"
                     /\ s[3] \in {"4", "7", "8", "N"} => category = "UNCATEGORIZED"

C18_Witness ==
    /\ fn = "categorize_rb_number"
    /\ rb_number = PyStr(<<"X", "3", "3", "5", "5", "Y", "Z">>)
    /\ ret = <<"CALIBRATION">>

\* The last run main's arguments ask for: last_run, or first_run when
\* last_run is left out.
LastRunAsked ==
    IF IsNone(call_args.last_run) THEN call_args.first_run ELSE call_args.last_run.n

\* C19: for first_run <= last_run, the run range main works on has exactly
\* last_run - first_run + 1 run numbers, begins with first_run, ends with
\* last_run and rises by 1 from each number to the next; with last_run left
\* out it is first_run alone; deriving the range again from the same
\* arguments gives the sequence main holds, however far main has got.
C19_RunRange ==
    (fn = "main" /\ call_args.first_run <= LastRunAsked) =>
        /\ exc_at # "get_run_range"
        /\ Len(run_numbers) = LastRunAsked - call_args.first_run + 1
        /\ run_numbers[1] = call_args.first_run
        /\ run_numbers[Len(run_numbers)] = LastRunAsked
        /\ \A j \in 1..(Len(run_numbers) - 1) : run_numbers[j + 1] = run_numbers[j] + 1
        /\ IsNone(call_args.last_run) => run_numbers = <<call_args.first_run>>
        /\ get_run_range(call_args.first_run, call_args.last_run).runs = run_numbers

C19_Witness ==
    /\ fn = "main"
    /\ call_args.first_run = 1
    /\ call_args.last_run = PyInt(MaxRun)
    /\ run_numbers = [j \in 1..MaxRun |-> j]
    /\ pc = "done"
    /\ Len(resolved) = MaxRun

\* C20: with first_run above last_run, get_run_range raises ValueError and
\* gives no run numbers: main ends there, having looked up and sent nothing.
C20_RunRangeRejected ==
    (fn = "main" /\ call_args.first_run > LastRunAsked) =>
        /\ pc = "raised"
        /\ exc = "ValueError"
        /\ exc_at = "get_run_range"
        /\ run_numbers = <<>>
        /\ resolved = <<>>
        /\ events = <<Event("get_run_range", call_args.first_run, <<>>)>>
        /\ sent = <<>>
        /\ ret = <<>>

C20_Witness ==
    /\ fn = "main"
    /\ call_args.first_run = 2
    /\ call_args.last_run = PyInt(1)
    /\ pc = "raised"
    /\ exc = "ValueError"

\* C21: when several database rows match the instrument and run number,
\* get_run_data_from_database returns the file path, the reference number
\* as a string and the title of the row with the smallest run_version.
C21_LowestRunVersion ==
    (source = "db" /\ Cardinality(db_rows) > 1) =>
        \A row \in db_rows :
            (\A other \in db_rows : row.run_version <= other.run_version) =>
                /\ LastResolved.location = row.file_path
                /\ LastResolved.rb_number = PyStr(NatStr(row.reference_number))
                /\ LastResolved.run_title = row.run_title
                /\ fn = "get_run_data" =>
                      ret = <<<<row.file_path, PyStr(NatStr(row.reference_number)),
                                row.run_title>>>>

C21_Witness ==
    /\ fn = "get_run_data"
    /\ source = "db"
    /\ db_rows = {RowV0, RowV1}
    /\ pc = "done"
    /\ ret = <<<<PyStr(<<"/", "d", "0">>), PyStr(<<"2", "1", "3", "0", "0", "0", "1">>),
                 PyStr(<<"t", "0">>)>>>>

\* C22: main run as a process ends with a non-zero status exactly when the
\* run range is invalid or the queue or ICAT login fails, and with status
\* zero otherwise, also when runs could not be resolved.
C22_ExitStatus ==
    (fn = "main" /\ pc \in {"done", "raised"}) =>
        (ExitStatus # 0 <=> exc_at \in {"get_run_range", "login_queue", "login_icat"})

\* manual_batch_submit.main has looked up every run it was given and has
\* ended.
BatchEnded ==
    /\ fn = "manual_batch_submit.main"
    /\ pc \in {"done", "raised"}
    /\ Len(resolved) = Len(run_numbers)

\* The RB numbers the runs of the batch resolved to.
BatchRbNumbers == {resolved[j].rb_number : j \in 1..Len(resolved)}

\* C23: when the runs of a batch do not all resolve to the same RB number,
\* manual_batch_submit.main raises RuntimeError once the runs are resolved,
\* and sends no message.
C23_BatchRbConsistency ==
    (BatchEnded /\ Cardinality(BatchRbNumbers) > 1) =>
        /\ pc = "raised"
        /\ exc = "RuntimeError"
        /\ sent = <<>>

\* C24: manual_batch_submit.main given runs that resolve to one RB number
\* logs in to the queue once, looks up every run once in the order given,
\* and then sends exactly one message, with that RB number, the locations
\* in run order and all the runs.
C24_BatchSubmitsOnce ==
    (BatchEnded /\ Cardinality(BatchRbNumbers) = 1) =>
        /\ Len(EventsOf("login_queue")) = 1
        /\ [j \in 1..Len(run_numbers) |-> EventsOf("get_location_and_rb")[j].run] = run_numbers
        /\ pc = "done"
        /\ Len(sent) = 1
        /\ {sent[1].message.rb_number} = BatchRbNumbers
        /\ sent[1].message.data = [j \in 1..Len(resolved) |-> resolved[j].location]
        /\ sent[1].message.run_number = run_numbers

\* The warnings time_since_last_run.main has logged for the k-th instrument.
WarningsFor(k) == RunEvents("log_warning", k)

\* The k-th instrument is active and its last run finished more than one
\* day before now.
IsStale(k) ==
    /\ instruments[k].is_active
    /\ instruments[k].last_run = "finished"
    /\ instruments[k].finished + OneDay < Now

\* C25: when time_since_last_run.main has ended, it has logged exactly one
\* warning for each active instrument whose last run finished more than
\* one day before now, and none for any other instrument.
C25_OneWarningPerStaleInstrument ==
    (fn = "time_since_last_run.main" /\ pc \in {"done", "raised"}) =>
        \A k \in 1..Len(instruments) :
            Len(WarningsFor(k)) = IF IsStale(k) THEN 1 ELSE 0

\* The operations of resolving and publishing a run.
PerRunOps == {"db_lookup", "login_icat", "icat_query", "open_file", "send"}

\* C26: main validates the run range first, then logs in to the queue, then
\* deals with the runs; when the range is invalid (ValueError) or the queue
\* login fails (RuntimeError) main raises at once, and no database lookup,
\* ICAT login or query, or send is ever made.
C26_FatalOrdering ==
    fn = "main" =>
        /\ events # <<>> /\ events[1].op = "get_run_range"
        /\ Len(events) >= 2 => events[2].op = "login_queue"
        /\ \A k \in 3..Len(events) : events[k].op \notin {"get_run_range", "login_queue"}
        /\ (\E k \in 1..Len(events) : events[k].op \in PerRunOps) =>
              /\ activemq_client = "client"
              /\ run_numbers # <<>>
        /\ exc_at = "get_run_range" => (pc = "raised" /\ exc = "ValueError" /\ Len(events) = 1)
        /\ exc_at = "login_queue" => (pc = "raised" /\ exc = "RuntimeError" /\ Len(events) = 2)
        /\ exc_at \in {"get_run_range", "login_queue"} =>
              /\ \A k \in 1..Len(events) : events[k].op \notin PerRunOps
              /\ sent = <<>>
              /\ resolved = <<>>
              /\ ret = <<>>

C26_Witness ==
    /\ fn = "main"
    /\ pc = "raised"
    /\ exc_at = "login_queue"
    /\ run_numbers = <<1, 2>>
    /\ activemq_client = "None"

\* The place of an operation in main's handling of one run: resolution,
\* then classification, then submission or skip; 0 for any other operation.
Stage(op) ==
    CASE op \in {"db_lookup", "login_icat", "icat_query", "open_file"} -> 1
      [] op = "log_info" -> 2
      [] op \in {"send", "log_error"} -> 3
      [] OTHER -> 0

\* The events of main's loop, in order.
LoopEvents == SelectSeq(events, LAMBDA ev : Stage(ev.op) > 0)

\* main's runs are handled one after the other in the order of the range,
\* each looked up in the database once, classified after it is resolved and
\* submitted or skipped after it is classified.
SequentialRuns ==
    /\ [j \in 1..Len(EventsOf("db_lookup")) |-> EventsOf("db_lookup")[j].run] =
          SubSeq(run_numbers, 1, Len(EventsOf("db_lookup")))
    /\ \A k \in 1..Len(LoopEvents), m \in 1..Len(LoopEvents) :
          k < m =>
              /\ LoopEvents[k].run <= LoopEvents[m].run
              /\ LoopEvents[k].run = LoopEvents[m].run =>
                    /\ Stage(LoopEvents[k].op) <= Stage(LoopEvents[m].op)
                    /\ Stage(LoopEvents[k].op) # Stage(LoopEvents[m].op)
                          \/ LoopEvents[k].op \in {"login_icat", "icat_query", "open_file"}
                          \/ LoopEvents[m].op \in {"login_icat", "icat_query", "open_file"}

\* The failures of external calls that end main: a connection that cannot
\* be made, an ICAT that has not the file, a data file that cannot be read.
ExternalFailures ==
    {"login_queue", "login_icat", "icat_unpack", "icat_not_found", "read_rb_from_datafile"}

\* C27: main handles the runs of the range in ascending order, resolving
\* each once, classifying it after that and submitting or skipping it after
\* that, and starts on no run before the one before it was submitted or
\* skipped; and when main has ended on a valid range without an external
\* call failing, it has returned and every run was submitted or skipped.
C27_SequentialProcessing ==
    fn = "main" =>
        /\ SequentialRuns
        /\ (pc \in {"done", "raised"} /\ exc_at \notin ExternalFailures \cup {"get_run_range"}) =>
              /\ pc = "done"
              /\ \A j \in 1..Len(run_numbers) :
                    Len(RunEvents("send", run_numbers[j]))
                        + Len(RunEvents("log_error", run_numbers[j])) = 1

\* C28: main never ends at the classification of a run; a run whose
\* classification fails, as it does for a null experiment id, is logged
\* with a warning and skipped, and main goes on to the next run.
C28_ClassificationFailureIsSkipped ==
    fn = "main" =>
        /\ exc_at # "categorize_rb_number"
        /\ \A j \in 1..Len(resolved) :
              (IsNone(resolved[j].rb_number) /\ (j < run_idx \/ pc = "raised")) =>
                  /\ Len(RunEvents("log_warning", resolved[j].run)) = 1
                  /\ RunEvents("log_info", resolved[j].run) = <<>>
                  /\ SendsFor(resolved[j].run) = <<>>

RunDataReturned ==
    \/ fn = "main" /\ pc \in {"categorize", "submit"}
    \/ fn = "get_run_data" /\ pc = "done" /\ source # "none"

\* C31: while a run is resolved the data file is opened only for the
\* calibration correction: a file is opened only for a run that ICAT was asked
\* about; when the metadata came from the database, or the ICAT experiment id
\* does not contain "CAL", no file is opened for the run and the experiment id
\* get_run_data returns is the one the source gave.
C31_FileOpenedOnlyForCalibration ==
    /\ fn \in {"main", "get_run_data"} =>
          \A i \in DOMAIN events :
              events[i].op = "open_file" =>
                  /\ RunEvents("icat_query", events[i].run) # <<>>
                  /\ Len(RunEvents("open_file", events[i].run)) = 1
    /\ (RunDataReturned /\ source = "db") =>
          /\ RunEvents("open_file", CurrentRun) = <<>>
          /\ overwrite_call = NoOverwriteCall
          /\ db_rows # {} =>
                rb_number = PyStr(NatStr(FirstByVersion(db_rows).reference_number))
          /\ db_rows = {} => rb_number = PyNone
          /\ LastResolved.rb_number = rb_number
          /\ fn = "get_run_data" => ret[1][2] = rb_number
    /\ (RunDataReturned /\ source = "icat"
          /\ ~Contains(PyStrOf(datafile.name), <<"C", "A", "L">>)) =>
          /\ RunEvents("open_file", CurrentRun) = <<>>
          /\ ~overwrite_call.opened
          /\ rb_number = datafile.name
          /\ LastResolved.rb_number = rb_number
          /\ fn = "get_run_data" => ret[1][2] = rb_number

\* main resolved one run from the database and the next from ICAT, whose
\* experiment id has no "CAL"; neither opened a file.
C31_Witness ==
    /\ fn = "main"
    /\ pc = "submit"
    /\ Len(resolved) = 2
    /\ resolved[1].rb_number = PyStr(NatStr(RowV0.reference_number))
    /\ source = "icat"
    /\ datafile = DfPlain
    /\ rb_number = DfPlain.name
    /\ EventsOf("open_file") = <<>>

\* C32: time_since_last_run.main never raises, whatever the database holds:
\* when it has ended it has returned, having gone through every instrument,
\* also past an active instrument without a reduction run or with a last run
\* that has no finish time.
C32_CheckCompletes ==
    fn = "time_since_last_run.main" =>
        /\ pc # "raised"
        /\ pc = "done" => run_idx = Len(instruments) + 1

\* The container was given its volumes and environment: run was called.
ContainerStarted ==
    /\ fn = "MantidDocker.perform_reduction"
    /\ EventsOf("docker_run") # <<>>

\* The mount in use for one direction: the supplied one, or the default.
MountInUse(supplied, default) == IF supplied.present THEN supplied ELSE default

\* The volumes bind the host directory of the mount with the mode.
Bound(mount, mode) ==
    \E v \in volumes :
        /\ v.host_location = mount.host_location
        /\ v.bind = mount.container_destination
        /\ v.mode = mode

\* C33: perform_reduction gets as far as running the container whenever the
\* image builds, with or without an output mount supplied, and the container
\* then has OUTPUT_DIR equal to the container destination of the output mount
\* in use, which the volumes bind read-write, while the input mount in use
\* is bound read-only.
C33_OutputDirIsOutputMount ==
    /\ fn = "MantidDocker.perform_reduction" => exc_at # "create_environment_variables"
    /\ ContainerStarted =>
          LET data_in == MountInUse(call_args.input_mount, DATA_IN)
              data_out == MountInUse(call_args.output_mount, DATA_OUT)
          IN  /\ environment_variables.OUTPUT_DIR = data_out.container_destination
              /\ Bound(data_out, "rw")
              /\ Bound(data_in, "ro")
====
